---- MODULE Spec2Model ----
(***************************************************************************)
(* Model of cc-ardutemp: the serial protocol codec (serial/protocol.rs),   *)
(* the poll loop and its stop handle (serial/reader.rs) and the shared     *)
(* state cell behind a reader-writer lock (state.rs).                      *)
(***************************************************************************)
EXTENDS Integers, Sequences, FiniteSets, TLC

\* ------------------------------------------------------------------------
\* Bounds of the model
\* ------------------------------------------------------------------------

\* Number of concurrent consumer threads calling the accessors of state.rs.
NumReaders == 2

\* Number of extra bytes appended after a 13-byte frame in the codec inputs.
MaxTrailing == 2

\* Longest of the byte sequences enumerated as inputs of crc8.
MaxCrcLen == 3

\* ------------------------------------------------------------------------
\* Program constants
\* ------------------------------------------------------------------------

POLL_INTERVAL_SECS == 10

RECONNECT_DELAY_SECS == 5

\* Minimum length of a response frame (protocol.rs: buffer.len() < 13).
FRAME_LEN == 13

\* Command byte of request and response (0x20).
CMD_TEMPS == 32

\* Expected sensor count in byte 3.
TEMP_COUNT == 4

\* Magic byte 0xAA and length byte 0x02 of the request header.
MAGIC == 170

REQ_LEN == 2

\* Reflected CRC-8 polynomial 0x8C.
CRC_POLY == 140

\* ------------------------------------------------------------------------
\* serial/protocol.rs: pure functions on bytes (u8 arithmetic)
\* ------------------------------------------------------------------------

\* The values of a u8.
U8 == 0..255

RECURSIVE BitXor(_, _, _)
\* a ^ b on the low n bits.
BitXor(a, b, n) ==
    IF n = 0 THEN 0
    ELSE (((a % 2) + (b % 2)) % 2) + (2 * BitXor(a \div 2, b \div 2, n - 1))

Xor8(a, b) == BitXor(a, b, 8)

\* The shift step of an MSB-first CRC-8 on the same polynomial (0x31).
Crc8ShiftMsbFirst ==
    [crc \in U8 |-> IF crc \div 128 # 0
                    THEN Xor8((crc * 2) % 256, 49)
                    ELSE (crc * 2) % 256]

\* One iteration of the inner loop of crc8, as a function of the u8 crc:
\* (crc >> 1) ^ 0x8C when the low bit is set, crc >> 1 otherwise.
Crc8Shift ==
    [crc \in U8 |-> IF crc % 2 # 0 THEN Xor8(crc \div 2, CRC_POLY) ELSE crc \div 2]

RECURSIVE Crc8Bits(_, _)
\* `for _ in 0..8`: k iterations of the shift step.
Crc8Bits(crc, k) ==
    IF k = 0 THEN crc ELSE Crc8Bits(Crc8Shift[crc], k - 1)

\* The whole inner loop, as a function of the u8 it starts from.
Crc8Byte == [crc \in U8 |-> Crc8Bits(crc, 8)]

\* One iteration of the outer loop, as a function of the running crc:
\* crc ^= byte, then the inner loop.
Crc8Next(byte) == [crc \in U8 |-> Crc8Byte[Xor8(crc, byte)]]

RECURSIVE Crc8From(_, _, _)
\* The outer loop of crc8 from byte k on, crc being the running value.
Crc8From(crc, bytes, k) ==
    IF k > Len(bytes) THEN crc
    ELSE Crc8From(Crc8Next(bytes[k])[crc], bytes, k + 1)

crc8(bytes) == Crc8From(0, bytes, 1)

\* A request whose CRC leaves out the magic byte.
build_request_crc_skips_magic ==
    <<MAGIC, REQ_LEN, CMD_TEMPS>> \o <<crc8(<<REQ_LEN, CMD_TEMPS>>)>>

\* build_request_packet: [0xAA, 0x02, 0x20, crc8(header)].
build_request_packet ==
    LET header == <<MAGIC, REQ_LEN, CMD_TEMPS>>
    IN  header \o <<crc8(header)>>

\* The two bytes read in little-endian order.
U16FromLe(hi, lo) == (lo * 256) + hi

\* u16::from_be_bytes([hi, lo]).
U16FromBe(hi, lo) == (hi * 256) + lo

\* raw as f64 / 10.0: the value raw/10, kept as integer part and tenths digit.
Celsius(raw) == [whole |-> (raw \div 10), tenth |-> (raw % 10)]

\* Results of parse_response_packet: Ok(TemperatureData) or Err(ParseError).
ParseOk(temps) == [tag |-> "Ok", temps |-> temps, a |-> 0, b |-> 0]

\* An error whose two payload fields are stored in the other order.
ParseErrSwapped(kind, a, b) == [tag |-> kind, temps |-> <<>>, a |-> b, b |-> a]

ParseErr(kind, a, b) == [tag |-> kind, temps |-> <<>>, a |-> a, b |-> b]

\* buffer[i] with the zero-based index of the source.
At(buf, idx) == buf[idx + 1]

\* The temperature loop of parse_response_packet (for i in 0..4).
ParseTemps(buf) ==
    [idx \in 1..4 |->
        LET offset == 4 + ((idx - 1) * 2)
        IN  Celsius(U16FromBe(At(buf, offset), At(buf, offset + 1)))]

\* A parse that verifies the command byte before the CRC.
parse_command_before_crc(buf) ==
    IF Len(buf) < FRAME_LEN
    THEN ParseErr("TooShort", Len(buf), 0)
    ELSE LET received_crc == At(buf, 12)
             calculated_crc == crc8(SubSeq(buf, 1, 12))
         IN  IF At(buf, 2) # CMD_TEMPS
             THEN ParseErr("InvalidCommand", At(buf, 2), 0)
             ELSE IF received_crc # calculated_crc
             THEN ParseErr("CrcMismatch", received_crc, calculated_crc)
             ELSE IF At(buf, 3) # TEMP_COUNT
             THEN ParseErr("UnexpectedTempCount", At(buf, 3), 0)
             ELSE ParseOk(ParseTemps(buf))

\* A parse that verifies the count before the command byte.
parse_count_before_command(buf) ==
    IF Len(buf) < FRAME_LEN
    THEN ParseErr("TooShort", Len(buf), 0)
    ELSE LET received_crc == At(buf, 12)
             calculated_crc == crc8(SubSeq(buf, 1, 12))
         IN  IF received_crc # calculated_crc
             THEN ParseErr("CrcMismatch", received_crc, calculated_crc)
             ELSE IF At(buf, 3) # TEMP_COUNT
             THEN ParseErr("UnexpectedTempCount", At(buf, 3), 0)
             ELSE IF At(buf, 2) # CMD_TEMPS
             THEN ParseErr("InvalidCommand", At(buf, 2), 0)
             ELSE ParseOk(ParseTemps(buf))

\* A parse that also rejects a frame whose byte 0 is not the magic byte.
parse_checks_magic(buf) ==
    IF Len(buf) < FRAME_LEN
    THEN ParseErr("TooShort", Len(buf), 0)
    ELSE LET received_crc == At(buf, 12)
             calculated_crc == crc8(SubSeq(buf, 1, 12))
         IN  IF received_crc # calculated_crc
             THEN ParseErr("CrcMismatch", received_crc, calculated_crc)
             ELSE IF At(buf, 0) # MAGIC \/ At(buf, 2) # CMD_TEMPS
             THEN ParseErr("InvalidCommand", At(buf, 2), 0)
             ELSE IF At(buf, 3) # TEMP_COUNT
             THEN ParseErr("UnexpectedTempCount", At(buf, 3), 0)
             ELSE ParseOk(ParseTemps(buf))

\* A parse whose TooShort carries the expected length, not the actual one.
parse_too_short_expected(buf) ==
    IF Len(buf) < FRAME_LEN
    THEN ParseErr("TooShort", FRAME_LEN, 0)
    ELSE LET received_crc == At(buf, 12)
             calculated_crc == crc8(SubSeq(buf, 1, 12))
         IN  IF received_crc # calculated_crc
             THEN ParseErr("CrcMismatch", received_crc, calculated_crc)
             ELSE IF At(buf, 2) # CMD_TEMPS
             THEN ParseErr("InvalidCommand", At(buf, 2), 0)
             ELSE IF At(buf, 3) # TEMP_COUNT
             THEN ParseErr("UnexpectedTempCount", At(buf, 3), 0)
             ELSE ParseOk(ParseTemps(buf))

parse_response_packet(buf) ==
    IF Len(buf) < FRAME_LEN
    THEN ParseErr("TooShort", Len(buf), 0)
    ELSE LET received_crc == At(buf, 12)
             calculated_crc == crc8(SubSeq(buf, 1, 12))
         IN  IF received_crc # calculated_crc
             THEN ParseErr("CrcMismatch", received_crc, calculated_crc)
             ELSE IF At(buf, 2) # CMD_TEMPS
             THEN ParseErr("InvalidCommand", At(buf, 2), 0)
             ELSE IF At(buf, 3) # TEMP_COUNT
             THEN ParseErr("UnexpectedTempCount", At(buf, 3), 0)
             ELSE ParseOk(ParseTemps(buf))

\* TemperatureData::default(): four zeros.
ZeroReading == [idx \in 1..4 |-> Celsius(0)]

\* ------------------------------------------------------------------------
\* Sample frames (built as test_parse_response_valid builds its frame)
\* ------------------------------------------------------------------------

\* The two bytes of a raw u16, high byte first.
BeBytes(raw) == <<raw \div 256, raw % 256>>

\* Twelve bytes: header, count and four big-endian raw values.
Body(b0, b1, b2, b3, raws) ==
    <<b0, b1, b2, b3>> \o BeBytes(raws[1]) \o BeBytes(raws[2])
                       \o BeBytes(raws[3]) \o BeBytes(raws[4])

\* response[12] = crc8(&response[0..12]).
Sealed(body) == body \o <<crc8(body)>>

\* Raw tenths of the test (25.0, 30.0, 35.0, 40.0) and a second reading that
\* differs from it in every position.
RawA == <<250, 300, 350, 400>>

RawB == <<251, 301, 351, 401>>

\* A reading that only frames without the magic and length bytes carry.
RawC == <<123, 456, 789, 1011>>

ReadingOf(raws) == [k \in 1..4 |-> Celsius(raws[k])]

SampleReadings == {ReadingOf(RawA), ReadingOf(RawB)}

FrameA == Sealed(Body(MAGIC, REQ_LEN, CMD_TEMPS, TEMP_COUNT, RawA))

FrameB == Sealed(Body(MAGIC, REQ_LEN, CMD_TEMPS, TEMP_COUNT, RawB))

\* What one port.read() of the poll cycle can deliver with len > 0: two good
\* frames, a frame with a wrong CRC, a sealed frame with a wrong command
\* byte, a sealed frame with a wrong count, and a truncated frame.
DeviceReplies ==
    { FrameA, FrameB,
      Body(MAGIC, REQ_LEN, CMD_TEMPS, TEMP_COUNT, RawA) \o <<255>>,
      Sealed(Body(MAGIC, REQ_LEN, CMD_TEMPS + 1, TEMP_COUNT, RawA)),
      Sealed(Body(MAGIC, REQ_LEN, CMD_TEMPS, TEMP_COUNT - 1, RawA)),
      SubSeq(FrameA, 1, 12) }

\* ------------------------------------------------------------------------
\* State
\* ------------------------------------------------------------------------

Readers == 1..NumReaders

\* The consumer that main.rs runs: the current-thread runtime serves the RPC
\* handlers on the main thread.
MainReader == 1

VARIABLES
    pc,            \* position of the poll thread in SerialReader::run
    running,       \* SerialReaderHandle.running / the clone held by run
    openHandles,   \* number of serial handles (Box<dyn SerialPort>) alive
    tick,             \* counter of the interruptible wait loops
    rdTag,         \* outcome of the last port.read(): "none", "ok", "err"
    buffer,        \* &buffer[..len] of the last port.read()
    pollRes,       \* value returned by poll_temperatures / parse_response_packet
    data,          \* the TemperatureData moved into update
    wrIdx,         \* elements of state.temperatures already assigned by update
    txFrame,       \* bytes of the last write_all on the port
    temperatures,  \* InnerState.temperatures.temps
    connected,     \* InnerState.connected
    lockWriter,    \* the RwLock is write-locked
    lockReaders,   \* consumers holding a read lock
    mainPc,        \* position of the main thread
    viaDrop,       \* the running stop() was called by Drop
    threadHandle,  \* SerialReaderHandle.thread: "Some" or "None"
    rpc,           \* position of each consumer
    rcopy,         \* elements copied so far by get_temperatures
    rtemps,        \* last value returned by get_temperatures
    rconn,         \* last value returned by is_connected
    lastDecoded,   \* history: reading of the last poll cycle that returned Ok
    lastPoll,      \* history: outcome of the last completed poll cycle
    lastWrite,     \* history: last write of the poll thread to shared state
    prevOpen,      \* history: outcome of the last open attempt
    backoffSleeps, \* history: one-second backoff sleeps since the last open
    published,     \* history: arguments of the update calls so far
    stopCalls,     \* history: number of stop() calls started
    crcData,       \* the slice handed to crc8 when it is called on its own
    crcOut,        \* <<the u8 that call returned>>, <<>> before it returns
    cycle,         \* history: what the poll cycle under way has done so far
    intervalSleeps, \* history: poll-interval sleeps since the last poll cycle
    stopInWait,    \* history: where the first stop request found the poll thread
    afterStop,     \* history: sleeps, writes and opens begun after a stop request
    handleLog,     \* history: what has been done on the serial handle in use
    reader,        \* the SerialReader value of main: "owned", or "moved" into spawn
    pollThreads    \* number of threads started with SerialReader::run

pollVars == <<pc, running, openHandles, tick, rdTag, buffer, pollRes, data, wrIdx, txFrame>>

stateVars == <<temperatures, connected, lockWriter, lockReaders>>

mainVars == <<mainPc, viaDrop, threadHandle, stopCalls>>

readerVars == <<rpc, rcopy, rtemps, rconn>>

histVars == <<lastDecoded, lastPoll, lastWrite, prevOpen, backoffSleeps, published>>

crcVars == <<crcData, crcOut>>

orderVars == <<cycle, intervalSleeps, stopInWait, afterStop, handleLog>>

spawnVars == <<reader, pollThreads>>

vars == <<pollVars, stateVars, mainVars, readerVars, histVars, crcVars, orderVars, spawnVars>>

\* The last element of a log, "" for the empty log.
LastOf(log) == IF log = <<>> THEN "" ELSE log[Len(log)]

\* Nothing has been counted after a stop request.
NoneAfterStop == [sleeps |-> 0, writes |-> 0, opens |-> 0]

\* The poll thread is in one of the two interruptible wait loops of run.
InWait == pc \in {"interval_check", "interval_sleep", "reconnect_check", "reconnect_sleep"}

\* The events of poll_temperatures up to the Ok it returns.
DecodedCycle == <<"write", "delay", "read", "parse_ok">>

\* The events on a handle from open to the first request.
HandleOrder == <<"open", "settle", "drain", "drain_end", "connected", "write">>

NoResult == [tag |-> "none", temps |-> <<>>, a |-> 0, b |-> 0]

\* TemperatureState::new(), SerialReader::new(): the state holds its defaults,
\* main owns the SerialReader and no thread has been started; the flag that
\* spawn creates is true from its creation.
Init ==
    /\ pc = "unspawned"
    /\ running = TRUE
    /\ openHandles = 0
    /\ tick = 0
    /\ rdTag = "none"
    /\ buffer = <<>>
    /\ pollRes = NoResult
    /\ data = <<>>
    /\ wrIdx = 0
    /\ txFrame = <<>>
    /\ temperatures = ZeroReading
    /\ connected = FALSE
    /\ lockWriter = FALSE
    /\ lockReaders = {}
    /\ mainPc = "spawn"
    /\ viaDrop = FALSE
    /\ threadHandle = "None"
    /\ rpc = [r \in Readers |-> "idle"]
    /\ rcopy = [r \in Readers |-> <<>>]
    /\ rtemps = [r \in Readers |-> <<>>]
    /\ rconn = [r \in Readers |-> "none"]
    /\ lastDecoded = ZeroReading
    /\ lastPoll = "none"
    /\ lastWrite = "none"
    /\ prevOpen = "none"
    /\ backoffSleeps = 0
    /\ published = {}
    /\ stopCalls = 0
    /\ crcData = <<>>
    /\ crcOut = <<>>
    /\ cycle = <<>>
    /\ intervalSleeps = 0
    /\ stopInWait = "none"
    /\ afterStop = NoneAfterStop
    /\ handleLog = <<>>
    /\ reader = "owned"
    /\ pollThreads = 0

\* ------------------------------------------------------------------------
\* state.rs: the RwLock and the four operations of TemperatureState
\* ------------------------------------------------------------------------

\* self.inner.write(): granted when nobody holds the lock.
WriteLock ==
    /\ ~lockWriter
    /\ lockReaders = {}
    /\ lockWriter' = TRUE
    /\ UNCHANGED lockReaders

\* A write guard that is kept alive after the call.
WriteUnlockKept ==
    UNCHANGED <<lockWriter, lockReaders>>

\* Drop of the write guard.
WriteUnlock ==
    /\ lockWriter' = FALSE
    /\ UNCHANGED lockReaders

\* A read lock taken although a writer holds the lock.
ReadLockNoExclusion(r) ==
    /\ lockReaders' = lockReaders \cup {r}
    /\ UNCHANGED lockWriter

\* self.inner.read(): granted when no writer holds the lock.
ReadLock(r) ==
    /\ ~lockWriter
    /\ lockReaders' = lockReaders \cup {r}
    /\ UNCHANGED lockWriter

\* Drop of the read guard.
ReadUnlock(r) ==
    /\ lockReaders' = lockReaders \ {r}
    /\ UNCHANGED lockWriter

\* set_connected, first half: take the write lock.
SetConnectedLock(at, next) ==
    /\ pc = at
    /\ WriteLock
    /\ pc' = next
    /\ UNCHANGED <<running, openHandles, tick, rdTag, buffer, pollRes, data, wrIdx, txFrame>>
    /\ UNCHANGED <<temperatures, connected>>
    /\ UNCHANGED <<mainVars, readerVars, histVars>>
    /\ UNCHANGED crcVars
    /\ UNCHANGED spawnVars
    /\ UNCHANGED orderVars

\* A set_connected that also resets the reading when it clears the flag.
SetConnectedStoreClears(at, value, next) ==
    /\ pc = at
    /\ connected' = value
    /\ temperatures' = IF value THEN temperatures ELSE ZeroReading
    /\ WriteUnlock
    /\ lastWrite' = IF value THEN "connected_true" ELSE "connected_false"
    /\ pc' = next
    /\ UNCHANGED <<running, openHandles, tick, rdTag, buffer, pollRes, data, wrIdx, txFrame>>
    /\ UNCHANGED <<mainVars, readerVars>>
    /\ UNCHANGED <<lastDecoded, lastPoll, prevOpen, backoffSleeps, published>>
    /\ UNCHANGED crcVars
    /\ UNCHANGED spawnVars
    /\ handleLog' = IF value THEN Append(handleLog, "connected") ELSE handleLog
    /\ UNCHANGED <<cycle, intervalSleeps, stopInWait, afterStop>>

\* set_connected, second half: state.connected = connected, guard dropped.
SetConnectedStore(at, value, next) ==
    /\ pc = at
    /\ connected' = value
    /\ WriteUnlock
    /\ lastWrite' = IF value THEN "connected_true" ELSE "connected_false"
    /\ pc' = next
    /\ UNCHANGED <<running, openHandles, tick, rdTag, buffer, pollRes, data, wrIdx, txFrame>>
    /\ UNCHANGED temperatures
    /\ UNCHANGED <<mainVars, readerVars>>
    /\ UNCHANGED <<lastDecoded, lastPoll, prevOpen, backoffSleeps, published>>
    /\ UNCHANGED crcVars
    /\ UNCHANGED spawnVars
    /\ handleLog' = IF value THEN Append(handleLog, "connected") ELSE handleLog
    /\ UNCHANGED <<cycle, intervalSleeps, stopInWait, afterStop>>

\* update, first half: take the write lock.
UpdateLock ==
    /\ pc = "update_lock"
    /\ WriteLock
    /\ pc' = "update_store"
    /\ wrIdx' = 0
    /\ published' = published \cup {data}
    /\ UNCHANGED <<running, openHandles, tick, rdTag, buffer, pollRes, data, txFrame>>
    /\ UNCHANGED <<temperatures, connected>>
    /\ UNCHANGED <<mainVars, readerVars>>
    /\ UNCHANGED <<lastDecoded, lastPoll, lastWrite, prevOpen, backoffSleeps>>
    /\ UNCHANGED crcVars
    /\ UNCHANGED spawnVars
    /\ cycle' = Append(cycle, "update")
    /\ UNCHANGED <<intervalSleeps, stopInWait, afterStop, handleLog>>

\* update, second half: state.temperatures = data, one f64 at a time; the
\* guard is dropped after the last one and run goes on to its wait loop.
UpdateStore ==
    /\ pc = "update_store"
    /\ wrIdx < 4
    /\ temperatures' = [temperatures EXCEPT ![wrIdx + 1] = data[wrIdx + 1]]
    /\ IF wrIdx + 1 = 4
       THEN /\ WriteUnlock
            /\ wrIdx' = 0
            /\ data' = <<>>
            /\ lastWrite' = "update"
            /\ tick' = 0
            /\ pc' = "interval_check"
       ELSE /\ wrIdx' = wrIdx + 1
            /\ UNCHANGED <<lockWriter, lockReaders, data, lastWrite, tick, pc>>
    /\ UNCHANGED <<running, openHandles, rdTag, buffer, pollRes, txFrame>>
    /\ UNCHANGED connected
    /\ UNCHANGED <<mainVars, readerVars>>
    /\ UNCHANGED <<lastDecoded, lastPoll, prevOpen, backoffSleeps, published>>
    /\ UNCHANGED crcVars
    /\ UNCHANGED spawnVars
    /\ cycle' = IF pc' = "interval_check" THEN <<>> ELSE cycle
    /\ UNCHANGED <<intervalSleeps, stopInWait, afterStop, handleLog>>

\* A consumer starts get_temperatures (status) or is_connected (health).
ReaderCall(r) ==
    /\ rpc[r] = "idle"
    /\ \E op \in {"gt_lock", "ic_lock"} : rpc' = [rpc EXCEPT ![r] = op]
    /\ rtemps' = [rtemps EXCEPT ![r] = <<>>]
    /\ rconn' = [rconn EXCEPT ![r] = "none"]
    /\ UNCHANGED <<rcopy, pollVars, stateVars, mainVars, histVars>>
    /\ UNCHANGED crcVars
    /\ UNCHANGED spawnVars
    /\ UNCHANGED orderVars

\* get_temperatures: self.inner.read().
GetTemperaturesLock(r) ==
    /\ rpc[r] = "gt_lock"
    /\ ReadLock(r)
    /\ rpc' = [rpc EXCEPT ![r] = "gt_copy"]
    /\ rcopy' = [rcopy EXCEPT ![r] = <<>>]
    /\ UNCHANGED <<rtemps, rconn, temperatures, connected>>
    /\ UNCHANGED <<pollVars, mainVars, histVars>>
    /\ UNCHANGED crcVars
    /\ UNCHANGED spawnVars
    /\ UNCHANGED orderVars

\* get_temperatures: copy of s.temperatures.temps, one f64 at a time; the
\* guard is dropped after the last one and the copy is returned.
GetTemperaturesCopy(r) ==
    /\ rpc[r] = "gt_copy"
    /\ LET k == Len(rcopy[r]) + 1
           copy == Append(rcopy[r], temperatures[k])
       IN  IF k = 4
           THEN /\ ReadUnlock(r)
                /\ rtemps' = [rtemps EXCEPT ![r] = copy]
                /\ rcopy' = [rcopy EXCEPT ![r] = <<>>]
                /\ rpc' = [rpc EXCEPT ![r] = "idle"]
           ELSE /\ rcopy' = [rcopy EXCEPT ![r] = copy]
                /\ UNCHANGED <<lockWriter, lockReaders, rtemps, rpc>>
    /\ UNCHANGED <<rconn, temperatures, connected>>
    /\ UNCHANGED <<pollVars, mainVars, histVars>>
    /\ UNCHANGED crcVars
    /\ UNCHANGED spawnVars
    /\ UNCHANGED orderVars

\* is_connected: self.inner.read().
IsConnectedLock(r) ==
    /\ rpc[r] = "ic_lock"
    /\ ReadLock(r)
    /\ rpc' = [rpc EXCEPT ![r] = "ic_read"]
    /\ UNCHANGED <<rcopy, rtemps, rconn, temperatures, connected>>
    /\ UNCHANGED <<pollVars, mainVars, histVars>>
    /\ UNCHANGED crcVars
    /\ UNCHANGED spawnVars
    /\ UNCHANGED orderVars

\* An is_connected that consumes the flag it reports.
IsConnectedReadResets(r) ==
    /\ rpc[r] = "ic_read"
    /\ ReadUnlock(r)
    /\ rconn' = [rconn EXCEPT ![r] = IF connected THEN "true" ELSE "false"]
    /\ rpc' = [rpc EXCEPT ![r] = "idle"]
    /\ connected' = FALSE
    /\ UNCHANGED <<rcopy, rtemps, temperatures>>
    /\ UNCHANGED <<pollVars, mainVars, histVars>>
    /\ UNCHANGED crcVars
    /\ UNCHANGED spawnVars
    /\ UNCHANGED orderVars

\* is_connected: s.connected is returned and the guard dropped.
IsConnectedRead(r) ==
    /\ rpc[r] = "ic_read"
    /\ ReadUnlock(r)
    /\ rconn' = [rconn EXCEPT ![r] = IF connected THEN "true" ELSE "false"]
    /\ rpc' = [rpc EXCEPT ![r] = "idle"]
    /\ UNCHANGED <<rcopy, rtemps, temperatures, connected>>
    /\ UNCHANGED <<pollVars, mainVars, histVars>>
    /\ UNCHANGED crcVars
    /\ UNCHANGED spawnVars
    /\ UNCHANGED orderVars

\* The steps of a call that is under way.
ReaderFinish(r) ==
    \/ GetTemperaturesLock(r)
    \/ GetTemperaturesCopy(r)
    \/ IsConnectedLock(r)
    \/ IsConnectedRead(r)

\* ------------------------------------------------------------------------
\* serial/reader.rs: SerialReader::run, connect, flush_input, poll_temperatures
\* ------------------------------------------------------------------------

\* Bytes the device may have buffered at startup.
DrainNoise == <<65, 114, 100, 117>>

\* Err(String) of poll_temperatures for the transport errors.
PollErr(kind) == [tag |-> kind, temps |-> <<>>, a |-> 0, b |-> 0]

\* Variables no step of the poll thread touches.
othersVars == <<running, mainVars, readerVars>>

\* `while running.load(..)` of the outer loop.
WhileRunning ==
    /\ pc = "while_running"
    /\ pc' = IF running THEN "open" ELSE "final_lock"
    /\ UNCHANGED <<openHandles, tick, rdTag, buffer, pollRes, data, wrIdx, txFrame>>
    /\ UNCHANGED <<stateVars, othersVars, histVars>>
    /\ UNCHANGED crcVars
    /\ UNCHANGED spawnVars
    /\ UNCHANGED orderVars

\* connect: serialport::new(..).open(), which the device lets succeed or fail.
Open ==
    /\ pc = "open"
    /\ \E ok \in BOOLEAN :
          IF ok
          THEN /\ openHandles' = openHandles + 1
               /\ prevOpen' = "opened"
               /\ pc' = "settle"
          ELSE /\ prevOpen' = "failed"
               /\ pc' = "conn_err_lock"
               /\ UNCHANGED openHandles
    /\ backoffSleeps' = 0
    /\ UNCHANGED <<tick, rdTag, buffer, pollRes, data, wrIdx, txFrame>>
    /\ UNCHANGED <<stateVars, othersVars>>
    /\ UNCHANGED <<lastDecoded, lastPoll, lastWrite, published>>
    /\ UNCHANGED crcVars
    /\ UNCHANGED spawnVars
    /\ handleLog' = IF pc' = "settle" THEN <<"open">> ELSE <<"open_failed">>
    /\ afterStop' = IF running THEN afterStop
                    ELSE [afterStop EXCEPT !.opens = @ + 1]
    /\ UNCHANGED <<cycle, intervalSleeps, stopInWait>>

\* A connect that returns the port after the settle delay, without the drain.
SettleSkipsDrain ==
    /\ pc = "settle"
    /\ pc' = "connected_lock"
    /\ UNCHANGED <<openHandles, tick, rdTag, buffer, pollRes, data, wrIdx, txFrame>>
    /\ UNCHANGED <<stateVars, othersVars, histVars>>
    /\ UNCHANGED crcVars
    /\ UNCHANGED spawnVars
    /\ handleLog' = Append(handleLog, "settle")
    /\ UNCHANGED <<cycle, intervalSleeps, stopInWait, afterStop>>

\* connect: thread::sleep(RESET_DELAY_MS).
Settle ==
    /\ pc = "settle"
    /\ pc' = "flush_read"
    /\ UNCHANGED <<openHandles, tick, rdTag, buffer, pollRes, data, wrIdx, txFrame>>
    /\ UNCHANGED <<stateVars, othersVars, histVars>>
    /\ UNCHANGED crcVars
    /\ UNCHANGED spawnVars
    /\ handleLog' = Append(handleLog, "settle")
    /\ UNCHANGED <<cycle, intervalSleeps, stopInWait, afterStop>>

\* flush_input: one port.read(): Ok(0), Ok(n) or Err, as the device decides.
FlushRead ==
    /\ pc = "flush_read"
    /\ \E out \in {"empty", "bytes", "err"} :
          /\ rdTag' = IF out = "err" THEN "err" ELSE "ok"
          /\ buffer' = IF out = "bytes" THEN DrainNoise ELSE <<>>
    /\ pc' = "flush_match"
    /\ UNCHANGED <<openHandles, tick, pollRes, data, wrIdx, txFrame>>
    /\ UNCHANGED <<stateVars, othersVars, histVars>>
    /\ UNCHANGED crcVars
    /\ UNCHANGED spawnVars
    /\ handleLog' = IF LastOf(handleLog) = "drain" THEN handleLog
                    ELSE Append(handleLog, "drain")
    /\ UNCHANGED <<cycle, intervalSleeps, stopInWait, afterStop>>

\* flush_input: the match on the read; Ok(n) loops, Ok(0) and Err break and
\* connect returns Ok(port).
FlushMatch ==
    /\ pc = "flush_match"
    /\ pc' = IF rdTag = "ok" /\ Len(buffer) > 0 THEN "flush_read" ELSE "connected_lock"
    /\ rdTag' = "none"
    /\ buffer' = <<>>
    /\ UNCHANGED <<openHandles, tick, pollRes, data, wrIdx, txFrame>>
    /\ UNCHANGED <<stateVars, othersVars, histVars>>
    /\ UNCHANGED crcVars
    /\ UNCHANGED spawnVars
    /\ handleLog' = IF pc' = "connected_lock" THEN Append(handleLog, "drain_end")
                    ELSE handleLog
    /\ UNCHANGED <<cycle, intervalSleeps, stopInWait, afterStop>>

\* run, Ok(port) arm: self.state.set_connected(true).
ConnectedLock == SetConnectedLock("connected_lock", "connected_store")

ConnectedStore == SetConnectedStore("connected_store", TRUE, "while_polling")

\* run, Err(e) arm: self.state.set_connected(false).
ConnErrLock == SetConnectedLock("conn_err_lock", "conn_err_store")

ConnErrStore == SetConnectedStore("conn_err_store", FALSE, "reconnect_if")

\* `while running.load(..)` of the inner loop; when it ends the Ok(port) arm
\* ends and port is dropped.
WhilePolling ==
    /\ pc = "while_polling"
    /\ IF running
       THEN /\ pc' = "write"
            /\ UNCHANGED openHandles
       ELSE /\ pc' = "reconnect_if"
            /\ openHandles' = openHandles - 1
    /\ UNCHANGED <<tick, rdTag, buffer, pollRes, data, wrIdx, txFrame>>
    /\ UNCHANGED <<stateVars, othersVars, histVars>>
    /\ UNCHANGED crcVars
    /\ UNCHANGED spawnVars
    /\ handleLog' = IF pc' = "write" THEN handleLog ELSE <<>>
    /\ intervalSleeps' = IF pc' = "write" THEN intervalSleeps ELSE 0
    /\ UNCHANGED <<cycle, stopInWait, afterStop>>

\* A poll_temperatures that goes on to the read after a failed write_all.
WriteErrIgnored ==
    /\ pc = "write"
    /\ \E ok \in BOOLEAN :
          /\ txFrame' = IF ok THEN build_request_packet ELSE txFrame
          /\ cycle' = Append(cycle, IF ok THEN "write" ELSE "write_err")
    /\ pc' = "read_delay"
    /\ UNCHANGED <<openHandles, tick, rdTag, buffer, pollRes, data, wrIdx>>
    /\ UNCHANGED <<stateVars, othersVars, histVars>>
    /\ UNCHANGED crcVars
    /\ UNCHANGED spawnVars
    /\ handleLog' = IF LastOf(handleLog) = "write" THEN handleLog
                    ELSE Append(handleLog, "write")
    /\ afterStop' = IF running THEN afterStop
                    ELSE [afterStop EXCEPT !.writes = @ + 1]
    /\ UNCHANGED <<intervalSleeps, stopInWait>>

\* poll_temperatures: port.write_all(&request), `?` on its error.
Write ==
    /\ pc = "write"
    /\ \E ok \in BOOLEAN :
          IF ok
          THEN /\ txFrame' = build_request_packet
               /\ pc' = "read_delay"
               /\ UNCHANGED pollRes
          ELSE /\ pollRes' = PollErr("WriteError")
               /\ pc' = "poll_match"
               /\ UNCHANGED txFrame
    /\ UNCHANGED <<openHandles, tick, rdTag, buffer, data, wrIdx>>
    /\ UNCHANGED <<stateVars, othersVars, histVars>>
    /\ UNCHANGED crcVars
    /\ UNCHANGED spawnVars
    /\ cycle' = Append(cycle, IF pc' = "read_delay" THEN "write" ELSE "write_err")
    /\ handleLog' = IF LastOf(handleLog) = "write" THEN handleLog
                    ELSE Append(handleLog, "write")
    /\ afterStop' = IF running THEN afterStop
                    ELSE [afterStop EXCEPT !.writes = @ + 1]
    /\ UNCHANGED <<intervalSleeps, stopInWait>>

\* poll_temperatures: thread::sleep(READ_DELAY_MS).
ReadDelay ==
    /\ pc = "read_delay"
    /\ pc' = "read"
    /\ UNCHANGED <<openHandles, tick, rdTag, buffer, pollRes, data, wrIdx, txFrame>>
    /\ UNCHANGED <<stateVars, othersVars, histVars>>
    /\ UNCHANGED crcVars
    /\ UNCHANGED spawnVars
    /\ cycle' = Append(cycle, "delay")
    /\ UNCHANGED <<intervalSleeps, stopInWait, afterStop, handleLog>>

\* poll_temperatures: the one port.read(), `?` on its error, and the
\* `len == 0` check.
Read ==
    /\ pc = "read"
    /\ \/ /\ rdTag' = "err"
          /\ buffer' = <<>>
          /\ pollRes' = PollErr("ReadError")
          /\ pc' = "poll_match"
       \/ /\ rdTag' = "ok"
          /\ buffer' = <<>>
          /\ pollRes' = PollErr("NoData")
          /\ pc' = "poll_match"
       \/ /\ rdTag' = "ok"
          /\ buffer' \in DeviceReplies
          /\ pc' = "parse"
          /\ UNCHANGED pollRes
    /\ UNCHANGED <<openHandles, tick, data, wrIdx, txFrame>>
    /\ UNCHANGED <<stateVars, othersVars, histVars>>
    /\ UNCHANGED crcVars
    /\ UNCHANGED spawnVars
    /\ cycle' = Append(cycle, IF rdTag' = "err" THEN "read_err"
                             ELSE IF buffer' = <<>> THEN "read_zero" ELSE "read")
    /\ UNCHANGED <<intervalSleeps, stopInWait, afterStop, handleLog>>

\* poll_temperatures: parse_response_packet(&buffer[..len]).
Parse ==
    /\ pc = "parse"
    /\ pollRes' = parse_response_packet(buffer)
    /\ pc' = "poll_match"
    /\ UNCHANGED <<openHandles, tick, rdTag, buffer, data, wrIdx, txFrame>>
    /\ UNCHANGED <<stateVars, othersVars, histVars>>
    /\ UNCHANGED crcVars
    /\ UNCHANGED spawnVars
    /\ cycle' = Append(cycle, IF pollRes'.tag = "Ok" THEN "parse_ok" ELSE "parse_err")
    /\ UNCHANGED <<intervalSleeps, stopInWait, afterStop, handleLog>>

\* A match whose Err(e) arm returns from run instead of breaking.
PollMatchErrReturns ==
    /\ pc = "poll_match"
    /\ IF pollRes.tag = "Ok"
       THEN /\ data' = pollRes.temps
            /\ lastDecoded' = pollRes.temps
            /\ lastPoll' = "ok"
            /\ pc' = "update_lock"
            /\ UNCHANGED openHandles
       ELSE /\ lastPoll' = "err"
            /\ openHandles' = openHandles - 1
            /\ pc' = "final_lock"
            /\ UNCHANGED <<data, lastDecoded>>
    /\ pollRes' = NoResult
    /\ rdTag' = "none"
    /\ buffer' = <<>>
    /\ UNCHANGED <<tick, wrIdx, txFrame>>
    /\ UNCHANGED <<stateVars, othersVars>>
    /\ UNCHANGED <<lastWrite, prevOpen, backoffSleeps, published>>
    /\ UNCHANGED crcVars
    /\ UNCHANGED spawnVars
    /\ cycle' = IF pc' = "update_lock" THEN cycle ELSE <<>>
    /\ handleLog' = IF pc' = "update_lock" THEN handleLog ELSE <<>>
    /\ intervalSleeps' = 0
    /\ UNCHANGED <<stopInWait, afterStop>>

\* A match whose Err(e) arm leaves the loop with the port still alive.
PollMatchKeepsPort ==
    /\ pc = "poll_match"
    /\ IF pollRes.tag = "Ok"
       THEN /\ data' = pollRes.temps
            /\ lastDecoded' = pollRes.temps
            /\ lastPoll' = "ok"
            /\ pc' = "update_lock"
       ELSE /\ lastPoll' = "err"
            /\ pc' = "reconnect_if"
            /\ UNCHANGED <<data, lastDecoded>>
    /\ UNCHANGED openHandles
    /\ pollRes' = NoResult
    /\ rdTag' = "none"
    /\ buffer' = <<>>
    /\ UNCHANGED <<tick, wrIdx, txFrame>>
    /\ UNCHANGED <<stateVars, othersVars>>
    /\ UNCHANGED <<lastWrite, prevOpen, backoffSleeps, published>>
    /\ UNCHANGED crcVars
    /\ UNCHANGED spawnVars
    /\ cycle' = IF pc' = "update_lock" THEN cycle ELSE <<>>
    /\ handleLog' = IF pc' = "update_lock" THEN handleLog ELSE <<>>
    /\ intervalSleeps' = 0
    /\ UNCHANGED <<stopInWait, afterStop>>

\* run: the match on poll_temperatures; Ok(data) goes on to update, Err(e)
\* breaks out of the inner loop, which ends the arm and drops port.
PollMatch ==
    /\ pc = "poll_match"
    /\ IF pollRes.tag = "Ok"
       THEN /\ data' = pollRes.temps
            /\ lastDecoded' = pollRes.temps
            /\ lastPoll' = "ok"
            /\ pc' = "update_lock"
            /\ UNCHANGED openHandles
       ELSE /\ lastPoll' = "err"
            /\ openHandles' = openHandles - 1
            /\ pc' = "reconnect_if"
            /\ UNCHANGED <<data, lastDecoded>>
    /\ pollRes' = NoResult
    /\ rdTag' = "none"
    /\ buffer' = <<>>
    /\ UNCHANGED <<tick, wrIdx, txFrame>>
    /\ UNCHANGED <<stateVars, othersVars>>
    /\ UNCHANGED <<lastWrite, prevOpen, backoffSleeps, published>>
    /\ UNCHANGED crcVars
    /\ UNCHANGED spawnVars
    /\ cycle' = IF pc' = "update_lock" THEN cycle ELSE <<>>
    /\ handleLog' = IF pc' = "update_lock" THEN handleLog ELSE <<>>
    /\ intervalSleeps' = 0
    /\ UNCHANGED <<stopInWait, afterStop>>

\* A wait loop that sleeps its n seconds without looking at the stop flag.
WaitCheckNoBreak(at, n, sleep, next) ==
    /\ pc = at
    /\ IF tick < n
       THEN /\ pc' = sleep
            /\ UNCHANGED tick
       ELSE /\ pc' = next
            /\ tick' = 0
    /\ UNCHANGED <<openHandles, rdTag, buffer, pollRes, data, wrIdx, txFrame>>
    /\ UNCHANGED <<stateVars, othersVars, histVars>>
    /\ UNCHANGED crcVars
    /\ UNCHANGED spawnVars
    /\ UNCHANGED orderVars

\* The head of an interruptible wait loop (`for _ in 0..n` with the
\* `!running` break): at `at`, n one-second sleeps at `sleep`, then `next`.
WaitCheck(at, n, sleep, next) ==
    /\ pc = at
    /\ IF tick < n /\ running
       THEN /\ pc' = sleep
            /\ UNCHANGED tick
       ELSE /\ pc' = next
            /\ tick' = 0
    /\ UNCHANGED <<openHandles, rdTag, buffer, pollRes, data, wrIdx, txFrame>>
    /\ UNCHANGED <<stateVars, othersVars, histVars>>
    /\ UNCHANGED crcVars
    /\ UNCHANGED spawnVars
    /\ UNCHANGED orderVars

\* A poll-interval loop that runs for the reconnect delay.
IntervalCheckShort ==
    WaitCheck("interval_check", RECONNECT_DELAY_SECS, "interval_sleep", "while_polling")

\* The poll-interval loop of run.
IntervalCheck ==
    WaitCheck("interval_check", POLL_INTERVAL_SECS, "interval_sleep", "while_polling")

\* thread::sleep(1 s) of the poll-interval loop.
IntervalSleep ==
    /\ pc = "interval_sleep"
    /\ tick' = tick + 1
    /\ pc' = "interval_check"
    /\ UNCHANGED <<openHandles, rdTag, buffer, pollRes, data, wrIdx, txFrame>>
    /\ UNCHANGED <<stateVars, othersVars, histVars>>
    /\ UNCHANGED crcVars
    /\ UNCHANGED spawnVars
    /\ intervalSleeps' = intervalSleeps + 1
    /\ afterStop' = IF running THEN afterStop
                    ELSE [afterStop EXCEPT !.sleeps = @ + 1]
    /\ UNCHANGED <<cycle, stopInWait, handleLog>>

\* `if running.load(..)` before the reconnect wait.
ReconnectIf ==
    /\ pc = "reconnect_if"
    /\ pc' = IF running THEN "reconnect_check" ELSE "while_running"
    /\ tick' = 0
    /\ UNCHANGED <<openHandles, rdTag, buffer, pollRes, data, wrIdx, txFrame>>
    /\ UNCHANGED <<stateVars, othersVars, histVars>>
    /\ UNCHANGED crcVars
    /\ UNCHANGED spawnVars
    /\ UNCHANGED orderVars

\* A reconnect wait loop that sleeps once more than RECONNECT_DELAY_SECS.
ReconnectCheckOffByOne ==
    WaitCheck("reconnect_check", RECONNECT_DELAY_SECS + 1, "reconnect_sleep", "while_running")

\* The reconnect wait loop of run.
ReconnectCheck ==
    WaitCheck("reconnect_check", RECONNECT_DELAY_SECS, "reconnect_sleep", "while_running")

\* thread::sleep(1 s) of the reconnect wait loop.
ReconnectSleep ==
    /\ pc = "reconnect_sleep"
    /\ tick' = tick + 1
    /\ backoffSleeps' = backoffSleeps + 1
    /\ pc' = "reconnect_check"
    /\ UNCHANGED <<openHandles, rdTag, buffer, pollRes, data, wrIdx, txFrame>>
    /\ UNCHANGED <<stateVars, othersVars>>
    /\ UNCHANGED <<lastDecoded, lastPoll, lastWrite, prevOpen, published>>
    /\ UNCHANGED crcVars
    /\ UNCHANGED spawnVars
    /\ afterStop' = IF running THEN afterStop
                    ELSE [afterStop EXCEPT !.sleeps = @ + 1]
    /\ UNCHANGED <<cycle, intervalSleeps, stopInWait, handleLog>>

\* run, after the outer loop: self.state.set_connected(false), then return.
FinalLock == SetConnectedLock("final_lock", "final_store")

FinalStore == SetConnectedStore("final_store", FALSE, "done")

\* One step of the poll thread.
PollStep ==
    \/ WhileRunning \/ Open \/ Settle \/ FlushRead \/ FlushMatch
    \/ ConnectedLock \/ ConnectedStore \/ ConnErrLock \/ ConnErrStore
    \/ WhilePolling \/ Write \/ ReadDelay \/ Read \/ Parse \/ PollMatch
    \/ UpdateLock \/ UpdateStore \/ IntervalCheck \/ IntervalSleep
    \/ ReconnectIf \/ ReconnectCheck \/ ReconnectSleep
    \/ FinalLock \/ FinalStore

\* ------------------------------------------------------------------------
\* main.rs and SerialReaderHandle: serving, stop(), Drop
\* ------------------------------------------------------------------------

\* main: reader.spawn().  spawn takes the SerialReader by value, creates the
\* flag with true, starts the one thread that runs run and returns the
\* handle with Some(thread).
Spawn ==
    /\ mainPc = "spawn"
    /\ reader = "owned"
    /\ reader' = "moved"
    /\ pollThreads' = pollThreads + 1
    /\ running' = TRUE
    /\ threadHandle' = "Some"
    /\ pc' = "while_running"
    /\ mainPc' = "serving"
    /\ UNCHANGED <<openHandles, tick, rdTag, buffer, pollRes, data, wrIdx, txFrame>>
    /\ UNCHANGED <<viaDrop, stopCalls>>
    /\ UNCHANGED <<stateVars, readerVars, histVars>>
    /\ UNCHANGED crcVars
    /\ UNCHANGED orderVars

\* The RPC handlers run on the main thread while the server is up.
Serve ==
    /\ mainPc = "serving"
    /\ \/ ReaderCall(MainReader)
       \/ ReaderFinish(MainReader)

\* The server ends: main calls reader_handle.stop() (the handle is dropped
\* afterwards), or returns early with `?` and the handle is only dropped.
Shutdown ==
    /\ mainPc = "serving"
    /\ rpc[MainReader] = "idle"
    /\ mainPc' = "stop_store"
    /\ viaDrop' \in BOOLEAN
    /\ stopCalls' = stopCalls + 1
    /\ UNCHANGED <<threadHandle, pollVars, stateVars, readerVars, histVars>>
    /\ UNCHANGED crcVars
    /\ UNCHANGED spawnVars
    /\ UNCHANGED orderVars

\* stop: self.running.store(false).
StopStore ==
    /\ mainPc = "stop_store"
    /\ running' = FALSE
    /\ mainPc' = "stop_take"
    /\ UNCHANGED <<pc, openHandles, tick, rdTag, buffer, pollRes, data, wrIdx, txFrame>>
    /\ UNCHANGED <<viaDrop, threadHandle, stopCalls>>
    /\ UNCHANGED <<stateVars, readerVars, histVars>>
    /\ UNCHANGED crcVars
    /\ UNCHANGED spawnVars
    /\ stopInWait' = IF stopInWait # "none" THEN stopInWait
                     ELSE IF InWait THEN "wait" ELSE "other"
    /\ UNCHANGED <<cycle, intervalSleeps, afterStop, handleLog>>

\* stop: `if let Some(handle) = self.thread.take()`.
StopTake ==
    /\ mainPc = "stop_take"
    /\ mainPc' = IF threadHandle = "Some" THEN "stop_join" ELSE "stop_ret"
    /\ threadHandle' = "None"
    /\ UNCHANGED <<viaDrop, stopCalls>>
    /\ UNCHANGED <<pollVars, stateVars, readerVars, histVars>>
    /\ UNCHANGED crcVars
    /\ UNCHANGED spawnVars
    /\ UNCHANGED orderVars

\* A stop that does not wait for the thread.
StopJoinDetached ==
    /\ mainPc = "stop_join"
    /\ mainPc' = "stop_ret"
    /\ UNCHANGED <<viaDrop, threadHandle, stopCalls>>
    /\ UNCHANGED <<pollVars, stateVars, readerVars, histVars>>
    /\ UNCHANGED crcVars
    /\ UNCHANGED spawnVars
    /\ UNCHANGED orderVars

\* stop: handle.join(), which returns once run has returned.
StopJoin ==
    /\ mainPc = "stop_join"
    /\ pc = "done"
    /\ mainPc' = "stop_ret"
    /\ UNCHANGED <<viaDrop, threadHandle, stopCalls>>
    /\ UNCHANGED <<pollVars, stateVars, readerVars, histVars>>
    /\ UNCHANGED crcVars
    /\ UNCHANGED spawnVars
    /\ UNCHANGED orderVars

\* stop returns; after an explicit stop the handle goes out of scope and
\* Drop calls stop once more.
StopRet ==
    /\ mainPc = "stop_ret"
    /\ IF viaDrop
       THEN /\ mainPc' = "exited"
            /\ UNCHANGED <<viaDrop, stopCalls>>
       ELSE /\ mainPc' = "stop_store"
            /\ viaDrop' = TRUE
            /\ stopCalls' = stopCalls + 1
    /\ UNCHANGED threadHandle
    /\ UNCHANGED <<pollVars, stateVars, readerVars, histVars>>
    /\ UNCHANGED crcVars
    /\ UNCHANGED spawnVars
    /\ UNCHANGED orderVars

MainStep == Spawn \/ Shutdown \/ StopStore \/ StopTake \/ StopJoin \/ StopRet

Next == PollStep \/ Serve \/ MainStep

Spec == Init /\ [][Next]_vars

\* ------------------------------------------------------------------------
\* The shared state under concurrent consumers
\* ------------------------------------------------------------------------

\* The poll thread about to publish a decoded reading on an open connection.
AtUpdate(d) ==
    /\ pc = "update_lock"
    /\ running = TRUE
    /\ openHandles = 1
    /\ tick = 0
    /\ rdTag = "none"
    /\ buffer = <<>>
    /\ pollRes = NoResult
    /\ data = d
    /\ wrIdx = 0
    /\ txFrame = build_request_packet
    /\ temperatures = ZeroReading
    /\ connected = TRUE
    /\ lockWriter = FALSE
    /\ lockReaders = {}
    /\ mainPc = "serving"
    /\ viaDrop = FALSE
    /\ threadHandle = "Some"
    /\ rpc = [r \in Readers |-> "idle"]
    /\ rcopy = [r \in Readers |-> <<>>]
    /\ rtemps = [r \in Readers |-> <<>>]
    /\ rconn = [r \in Readers |-> "none"]
    /\ lastDecoded = d
    /\ lastPoll = "ok"
    /\ lastWrite = "connected_true"
    /\ prevOpen = "opened"
    /\ backoffSleeps = 0
    /\ published = {}
    /\ stopCalls = 0
    /\ crcData = <<>>
    /\ crcOut = <<>>
    /\ cycle = DecodedCycle
    /\ intervalSleeps = 0
    /\ stopInWait = "none"
    /\ afterStop = NoneAfterStop
    /\ handleLog = HandleOrder
    /\ reader = "moved"
    /\ pollThreads = 1

InitLock == \E d \in SampleReadings : AtUpdate(d)

\* The rest of run between two update calls (the wait, the next request,
\* read and parse), reduced to the reading the next cycle decodes.
PublishNext ==
    /\ pc = "interval_check"
    /\ \E d \in SampleReadings :
          /\ data' = d
          /\ lastDecoded' = d
    /\ pc' = "update_lock"
    /\ UNCHANGED <<running, openHandles, tick, rdTag, buffer, pollRes, wrIdx, txFrame>>
    /\ UNCHANGED <<stateVars, mainVars, readerVars>>
    /\ UNCHANGED <<lastPoll, lastWrite, prevOpen, backoffSleeps, published>>
    /\ UNCHANGED crcVars
    /\ UNCHANGED spawnVars
    /\ cycle' = DecodedCycle
    /\ UNCHANGED <<intervalSleeps, stopInWait, afterStop, handleLog>>

\* Any consumer thread takes a step of its call.
ReaderStep == \E r \in Readers : ReaderCall(r) \/ ReaderFinish(r)

NextLock == UpdateLock \/ UpdateStore \/ PublishNext \/ ReaderStep

\* update racing with get_temperatures and is_connected of NumReaders threads.
SpecLock == InitLock /\ [][NextLock]_vars

\* ------------------------------------------------------------------------
\* The codec on a bounded set of buffers
\* ------------------------------------------------------------------------

\* Raw values at the edges of u16 and of a byte.
RawEdge == <<0, 65535, 256, 255>>

\* n bytes that follow a frame in the same read.
Trailing(n) == [k \in 1..n |-> 255]

\* The CRC byte of a buffer built on body: the right one, a wrong one, and
\* the one of the frame before its command byte and count were altered.
CrcChoices(body, raws) ==
    { crc8(body),
      Xor8(crc8(body), 255),
      crc8(Body(MAGIC, REQ_LEN, CMD_TEMPS, TEMP_COUNT, raws)) }

\* The frames on one 12-byte body.
FramesOn(body, raws) ==
    { body \o <<c>> \o Trailing(n) :
        c \in CrcChoices(body, raws), n \in 0..MaxTrailing }

\* Right and wrong values of the four header bytes.
Headers ==
    { <<b0, b1, b2, b3>> :
        b0 \in {MAGIC, 0}, b1 \in {REQ_LEN, 9},
        b2 \in {CMD_TEMPS, CMD_TEMPS + 1}, b3 \in {TEMP_COUNT, TEMP_COUNT - 1} }

\* Buffers handed to parse_response_packet: every combination of the header
\* bytes, three readings, the CRC choices and 0..MaxTrailing trailing bytes;
\* every proper prefix of a good frame (the empty buffer included) and every
\* run of fewer than 13 bytes 0xFF; the test frame with each value of a u8
\* as its byte 12; the sealed test frame with each value of a u8 as its
\* byte 0 and as its byte 1, and a sealed frame of a third reading with
\* neither the magic nor the length byte.
ParseInputs ==
    UNION { FramesOn(Body(h[1], h[2], h[3], h[4], raws), raws) :
              h \in Headers, raws \in {RawA, RawB, RawEdge} }
    \cup { SubSeq(FrameA, 1, n) : n \in 0..(FRAME_LEN - 1) }
    \cup { Trailing(n) : n \in 1..(FRAME_LEN - 1) }
    \cup { SubSeq(FrameA, 1, 12) \o <<c>> : c \in U8 }
    \cup { Sealed(Body(b, REQ_LEN, CMD_TEMPS, TEMP_COUNT, RawA)) : b \in U8 }
    \cup { Sealed(Body(MAGIC, b, CMD_TEMPS, TEMP_COUNT, RawA)) : b \in U8 }
    \cup { Sealed(Body(0, 9, CMD_TEMPS, TEMP_COUNT, RawC)) }

\* The poll thread about to parse what its read returned, on the first
\* connection.
InitParse ==
    /\ pc = "parse"
    /\ running = TRUE
    /\ openHandles = 1
    /\ tick = 0
    /\ rdTag = "ok"
    /\ buffer \in ParseInputs
    /\ pollRes = NoResult
    /\ data = <<>>
    /\ wrIdx = 0
    /\ txFrame = build_request_packet
    /\ temperatures = ZeroReading
    /\ connected = TRUE
    /\ lockWriter = FALSE
    /\ lockReaders = {}
    /\ mainPc = "serving"
    /\ viaDrop = FALSE
    /\ threadHandle = "Some"
    /\ rpc = [r \in Readers |-> "idle"]
    /\ rcopy = [r \in Readers |-> <<>>]
    /\ rtemps = [r \in Readers |-> <<>>]
    /\ rconn = [r \in Readers |-> "none"]
    /\ lastDecoded = ZeroReading
    /\ lastPoll = "none"
    /\ lastWrite = "connected_true"
    /\ prevOpen = "opened"
    /\ backoffSleeps = 0
    /\ published = {}
    /\ stopCalls = 0
    /\ crcData = <<>>
    /\ crcOut = <<>>
    /\ cycle = <<"write", "delay", "read">>
    /\ intervalSleeps = 0
    /\ stopInWait = "none"
    /\ afterStop = NoneAfterStop
    /\ handleLog = HandleOrder
    /\ reader = "moved"
    /\ pollThreads = 1

NextParse == Parse \/ PollMatch \/ UpdateLock \/ UpdateStore

\* parse_response_packet applied to each buffer of ParseInputs, and what run
\* does with the result.
SpecParse == InitParse /\ [][NextParse]_vars

\* ------------------------------------------------------------------------
\* crc8 on a bounded set of byte sequences
\* ------------------------------------------------------------------------

\* Bytes with no bit, the low bit, the high bit, the polynomial and all bits.
CrcBytes == {0, 1, 128, CRC_POLY, 255}

\* "123456789" in ASCII.
Digits == <<49, 50, 51, 52, 53, 54, 55, 56, 57>>

\* Slices handed to crc8: every sequence of up to MaxCrcLen bytes of
\* CrcBytes (the empty one included), every single byte, the request header,
\* the twelve bytes of a response body, and the digits.
CrcInputs ==
    UNION { [1..n -> CrcBytes] : n \in 0..MaxCrcLen }
    \cup { <<b>> : b \in U8 }
    \cup { <<MAGIC, REQ_LEN, CMD_TEMPS>>, SubSeq(FrameA, 1, 12), Digits }

\* Before a call of crc8 on its own, as the unit tests of protocol.rs make
\* it; the rest of the program is in its initial state.
InitCrc ==
    /\ pc = "unspawned"
    /\ running = TRUE
    /\ openHandles = 0
    /\ tick = 0
    /\ rdTag = "none"
    /\ buffer = <<>>
    /\ pollRes = NoResult
    /\ data = <<>>
    /\ wrIdx = 0
    /\ txFrame = <<>>
    /\ temperatures = ZeroReading
    /\ connected = FALSE
    /\ lockWriter = FALSE
    /\ lockReaders = {}
    /\ mainPc = "spawn"
    /\ viaDrop = FALSE
    /\ threadHandle = "None"
    /\ rpc = [r \in Readers |-> "idle"]
    /\ rcopy = [r \in Readers |-> <<>>]
    /\ rtemps = [r \in Readers |-> <<>>]
    /\ rconn = [r \in Readers |-> "none"]
    /\ lastDecoded = ZeroReading
    /\ lastPoll = "none"
    /\ lastWrite = "none"
    /\ prevOpen = "none"
    /\ backoffSleeps = 0
    /\ published = {}
    /\ stopCalls = 0
    /\ crcData \in CrcInputs
    /\ crcOut = <<>>
    /\ cycle = <<>>
    /\ intervalSleeps = 0
    /\ stopInWait = "none"
    /\ afterStop = NoneAfterStop
    /\ handleLog = <<>>
    /\ reader = "owned"
    /\ pollThreads = 0

\* crc8(data) is called and returns.
Crc8Call ==
    /\ crcOut = <<>>
    /\ crcOut' = <<crc8(crcData)>>
    /\ UNCHANGED crcData
    /\ UNCHANGED <<pollVars, stateVars, mainVars, readerVars, histVars, orderVars>>
    /\ UNCHANGED spawnVars

NextCrc == Crc8Call

\* crc8 applied to each slice of CrcInputs.
SpecCrc == InitCrc /\ [][NextCrc]_vars

\* The poll thread and the main thread are scheduled threads: a step that
\* stays possible is taken.  The poll thread needs the write lock only for
\* an instant between the consumer's short critical sections, so it gets the
\* lock although the consumer may keep taking and releasing it.  The device
\* and the moment of shutdown are not constrained.
FairSpec ==
    /\ Spec
    /\ SF_vars(PollStep)
    /\ WF_vars(mainPc = "serving" /\ ReaderFinish(MainReader))
    /\ WF_vars(Spawn \/ StopStore \/ StopTake \/ StopJoin \/ StopRet)

\* The steps the poll thread takes with the write guard in hand.
HoldingStep == ConnectedStore \/ ConnErrStore \/ UpdateStore \/ FinalStore

\* The device may stall every open, read, write and sleep of the poll thread
\* for ever: of the poll thread only the stores under the write guard, which
\* wait for nothing, are taken for sure.  The consumer is a scheduled thread
\* that gets the read lock when the lock is free again and again.
StallSpec ==
    /\ Spec
    /\ WF_vars(HoldingStep)
    /\ SF_vars(mainPc = "serving" /\ ReaderFinish(MainReader))

\* ------------------------------------------------------------------------
\* Claims
\* ------------------------------------------------------------------------

\* The poll thread is in the reconnect wait (line 104 to line 112 of run).
InBackoff == pc \in {"reconnect_if", "reconnect_check", "reconnect_sleep"}

\* run has left its outer loop.
Exited == pc \in {"final_lock", "final_store", "done"}

\* C1: whenever a poll cycle fails in the Connected state, the step that
\* leaves Connected for the reconnect backoff leaves the connectivity flag
\* false.
C1_PollFailureClearsFlag ==
    [][(pc = "poll_match" /\ pc' = "reconnect_if") => ~connected']_vars

\* C2: whenever the connectivity flag is true, a connection is open, the
\* most recently completed poll cycle (if there was one) succeeded, and the
\* loop is neither in the reconnect backoff nor stopped.
C2_ConnectedMeansHealthy ==
    connected =>
        /\ openHandles = 1
        /\ lastPoll # "err"
        /\ ~InBackoff
        /\ pc # "done"

\* C3: after a stop request the connectivity flag eventually is false and
\* the poll thread has terminated, whatever the device does.
C3_StopTerminates ==
    (~running) ~> (pc = "done" /\ ~connected)

\* C4: every get_temperatures returns the initial all-zero reading or the
\* whole argument of one update call, never elements of two readings.
C4_NoTornRead ==
    \A r \in Readers :
        rtemps[r] # <<>> => rtemps[r] \in ({ZeroReading} \cup published)

\* C4 case: a consumer got a published reading back after both readings
\* were published, while another consumer is copying and the poll thread
\* waits for the write lock.
C4_Witness ==
    \E r1, r2 \in Readers :
        /\ r1 # r2
        /\ rtemps[r1] \in published
        /\ published = SampleReadings
        /\ rpc[r2] = "gt_copy"
        /\ pc = "update_lock"

\* C5: outside the update call itself, the stored reading is the reading of
\* the last poll cycle that returned Ok (all-zero before the first); no
\* other step of the program changes it.
C5_StoredIsLastDecoded ==
    pc \notin {"update_lock", "update_store"} => temperatures = lastDecoded

\* C5 case: a second reading replaced the first, then a poll failed, and the
\* loop is in its backoff with the reading kept.
C5_Witness ==
    /\ pc = "reconnect_sleep"
    /\ lastPoll = "err"
    /\ published = SampleReadings
    /\ temperatures = ReadingOf(RawB)
    /\ ~running

\* C6: run leaves its outer loop only after a stop request, and while no
\* stop is requested every failure is followed by another open attempt.
C6_OnlyStopEndsLoop ==
    /\ [](Exited => ~running)
    /\ ([]running) => [](pc = "reconnect_if" => <>(pc = "open"))

\* C6 case: after a failed poll cycle and the backoff, the loop is about to
\* open again.
C6_Witness ==
    /\ pc = "open"
    /\ lastPoll = "err"
    /\ backoffSleeps = RECONNECT_DELAY_SECS
    /\ running

\* C7: if every open attempt fails and no stop is requested, the flag is
\* false forever, open is attempted again and again, and an open attempt
\* that follows a failed one comes after exactly RECONNECT_DELAY_SECS
\* one-second sleeps.
C7_OpenAlwaysFails ==
    ([](prevOpen # "opened") /\ []running) =>
        /\ []~connected
        /\ []<>(pc = "open")
        /\ [](pc = "open" /\ prevOpen = "failed"
                => backoffSleeps = RECONNECT_DELAY_SECS)

\* C7 case: the loop is about to retry after a failed open and the backoff.
C7_Witness ==
    /\ pc = "open"
    /\ prevOpen = "failed"
    /\ backoffSleeps = RECONNECT_DELAY_SECS
    /\ lastPoll = "none"
    /\ running
    /\ ~connected

\* C8: once a stop() has returned, run has returned, its last write to the
\* shared state was set_connected(false), the flag is false and no serial
\* handle is open; the second stop() finds no JoinHandle and joins nothing.
C8_StopJoins ==
    /\ (mainPc \in {"stop_ret", "exited"} \/ stopCalls = 2) =>
          /\ pc = "done"
          /\ lastWrite = "connected_false"
          /\ ~connected
          /\ openHandles = 0
    /\ stopCalls = 2 => (threadHandle = "None" /\ mainPc # "stop_join")

\* C8 case: the explicit stop and the one of Drop have both returned, after
\* a reading had been published.
C8_Witness ==
    /\ mainPc = "exited"
    /\ stopCalls = 2
    /\ temperatures \in SampleReadings

\* parse_response_packet has just returned for the bytes in buffer.
Parsed ==
    /\ pc = "poll_match"
    /\ pollRes.tag \notin {"none", "WriteError", "ReadError", "NoData"}

\* Byte 12 of buf is the CRC of bytes 0..12.
CrcOk(buf) == buf[13] = crc8(SubSeq(buf, 1, 12))

\* C9: a buffer of at least 13 bytes with a matching CRC byte, command 0x20
\* and count 4 parses to exactly four values, value k being the big-endian
\* u16 of its two bytes divided by 10, whatever follows byte 12; the frame
\* of 250, 300, 350, 400 gives 25.0, 30.0, 35.0, 40.0.
C9_ValidFrameParses ==
    (Parsed /\ Len(buffer) >= FRAME_LEN /\ CrcOk(buffer)
            /\ buffer[3] = CMD_TEMPS /\ buffer[4] = TEMP_COUNT) =>
        /\ pollRes.tag = "Ok"
        /\ DOMAIN pollRes.temps = 1..4
        /\ \A k \in 1..4 :
              /\ pollRes.temps[k].tenth \in 0..9
              /\ (10 * pollRes.temps[k].whole) + pollRes.temps[k].tenth
                    = (256 * buffer[3 + (2 * k)]) + buffer[4 + (2 * k)]
        /\ SubSeq(buffer, 5, 12) = <<0, 250, 1, 44, 1, 94, 1, 144>> =>
              pollRes.temps = << [whole |-> 25, tenth |-> 0], [whole |-> 30, tenth |-> 0],
                                 [whole |-> 35, tenth |-> 0], [whole |-> 40, tenth |-> 0] >>

\* C9 case: the test frame followed by trailing bytes has been parsed.
C9_Witness ==
    /\ Parsed
    /\ Len(buffer) > FRAME_LEN
    /\ SubSeq(buffer, 1, FRAME_LEN) = FrameA
    /\ pollRes.tag = "Ok"
    /\ pollRes.temps[4] = [whole |-> 40, tenth |-> 0]

\* C10 as stated: a buffer of at least 13 bytes whose byte 2 is not 0x20
\* fails with InvalidCommand, whether or not its CRC byte is right.
C10_AlwaysInvalidCommand ==
    (Parsed /\ Len(buffer) >= FRAME_LEN /\ buffer[3] # CMD_TEMPS) =>
        pollRes.tag = "InvalidCommand"

\* C10 amended: such a buffer always fails; with InvalidCommand carrying
\* byte 2 when its CRC byte matches, with CrcMismatch when it does not.
C10_InvalidCommandAfterCrc ==
    (Parsed /\ Len(buffer) >= FRAME_LEN /\ buffer[3] # CMD_TEMPS) =>
        IF CrcOk(buffer)
        THEN pollRes.tag = "InvalidCommand" /\ pollRes.a = buffer[3]
        ELSE pollRes.tag = "CrcMismatch"

\* C10 case: a sealed frame with a wrong command byte (and a wrong count
\* too) has been parsed.
C10_Witness ==
    /\ Parsed
    /\ Len(buffer) >= FRAME_LEN
    /\ buffer[3] = CMD_TEMPS + 1
    /\ buffer[4] # TEMP_COUNT
    /\ CrcOk(buffer)
    /\ pollRes.tag = "InvalidCommand"

\* C11: a buffer of fewer than 13 bytes, the empty one included, fails with
\* TooShort carrying its length; the parse indexes no byte of it (an index
\* outside the buffer has no value).
C11_TooShort ==
    (Parsed /\ Len(buffer) < FRAME_LEN) =>
        /\ pollRes.tag = "TooShort"
        /\ pollRes.a = Len(buffer)

\* C11 case: the first twelve bytes of a good frame have been parsed.
C11_Witness ==
    /\ Parsed
    /\ buffer = SubSeq(FrameA, 1, FRAME_LEN - 1)
    /\ pollRes.tag = "TooShort"
    /\ pollRes.a = FRAME_LEN - 1

\* C12: a 13-byte frame with command 0x20 and count 4 whose byte 12 differs
\* from crc8 of bytes 0..12 fails with CrcMismatch, received being byte 12
\* and calculated being that crc8.
C12_CrcMismatch ==
    (Parsed /\ Len(buffer) = FRAME_LEN /\ ~CrcOk(buffer)
            /\ buffer[3] = CMD_TEMPS /\ buffer[4] = TEMP_COUNT) =>
        /\ pollRes.tag = "CrcMismatch"
        /\ pollRes.a = buffer[13]
        /\ pollRes.b = crc8(SubSeq(buffer, 1, 12))

\* C12 case: the test frame with its CRC byte 0x95 replaced by 0x00 has
\* been parsed.
C12_Witness ==
    /\ Parsed
    /\ buffer = SubSeq(FrameA, 1, 12) \o <<0>>
    /\ pollRes.tag = "CrcMismatch"
    /\ pollRes.a = 0
    /\ pollRes.b = 149

\* C13: every frame the poll loop has written is the four bytes 0xAA, 0x02,
\* 0x20 and the crc8 of these three (0x2E), the value build_request_packet
\* returns on every call.
C13_RequestFrame ==
    txFrame # <<>> =>
        /\ Len(txFrame) = 4
        /\ txFrame[1] = 170
        /\ txFrame[2] = 2
        /\ txFrame[3] = 32
        /\ txFrame[4] = crc8(SubSeq(txFrame, 1, 3))
        /\ txFrame[4] = 46
        /\ txFrame = build_request_packet

\* C13 case: the request of a later cycle has been written, after a cycle
\* that published a reading.
C13_Witness ==
    /\ pc = "read_delay"
    /\ lastPoll = "ok"
    /\ published # {}
    /\ txFrame = <<170, 2, 32, 46>>

\* The reference computation on bit vectors: a u8 as its eight bits, least
\* significant first.
Bits(n) ==
    << n % 2, (n \div 2) % 2, (n \div 4) % 2, (n \div 8) % 2,
       (n \div 16) % 2, (n \div 32) % 2, (n \div 64) % 2, (n \div 128) % 2 >>

FromBits(bs) ==
    bs[1] + (2 * bs[2]) + (4 * bs[3]) + (8 * bs[4])
          + (16 * bs[5]) + (32 * bs[6]) + (64 * bs[7]) + (128 * bs[8])

\* Bitwise exclusive or of two bit vectors.
RefXor(x, y) == [k \in 1..8 |-> IF x[k] = y[k] THEN 0 ELSE 1]

\* Shift right by one: bit k+1 moves to bit k and the top bit becomes 0.
RefShr(x) == [k \in 1..8 |-> IF k < 8 THEN x[k + 1] ELSE 0]

\* If the low bit is set: shift right one and XOR 0x8C, else shift right one.
RefStep == [n \in U8 |->
    IF Bits(n)[1] = 1
    THEN FromBits(RefXor(RefShr(Bits(n)), Bits(140)))
    ELSE FromBits(RefShr(Bits(n)))]

\* The step, 8 times.
RefStep8 == [n \in U8 |->
    RefStep[RefStep[RefStep[RefStep[RefStep[RefStep[RefStep[RefStep[n]]]]]]]]]

\* XOR the byte into the 8-bit running value.
RefXorIn(byte) == [n \in U8 |-> FromBits(RefXor(Bits(n), Bits(byte)))]

RECURSIVE RefFrom(_, _, _)
\* The reference from byte k on, n being the running value.
RefFrom(n, bytes, k) ==
    IF k > Len(bytes) THEN n
    ELSE RefFrom(RefStep8[RefXorIn(bytes[k])[n]], bytes, k + 1)

\* Start at 0 and take each byte in turn.
Crc8Ref(bytes) == RefFrom(0, bytes, 1)

\* C14: what crc8 returns for a byte sequence is the value of the reference
\* computation (start at 0; per byte XOR it in, then 8 times the conditional
\* shift with 0x8C), lies in 0..255 and is 0 for the empty sequence; for the
\* digits "123456789" it is 0xA1.
C14_Crc8IsReference ==
    crcOut # <<>> =>
        /\ crcOut[1] = Crc8Ref(crcData)
        /\ crcOut[1] \in U8
        /\ crcData = <<>> => crcOut[1] = 0
        /\ crcData = Digits => crcOut[1] = 161

\* C14 case: crc8 has returned for three bytes that are not all zero.
C14_Witness ==
    /\ crcOut # <<>>
    /\ Len(crcData) = 3
    /\ crcData[1] = 255
    /\ crcOut[1] = Crc8Ref(crcData)
    /\ crcOut[1] # 0

\* The poll thread is at a serial I/O call (open, drain read, write, read)
\* or at a sleep (settle, read delay, poll-interval wait, backoff wait).
PollInIoOrSleep ==
    pc \in {"open", "settle", "flush_read", "write", "read_delay", "read",
            "interval_sleep", "reconnect_sleep"}

\* C15: while the poll thread is at serial I/O or asleep the write lock is
\* not held, and a call of get_temperatures or is_connected that has
\* started completes, however long the device stalls the poll thread.
C15_NoLockAcrossIo ==
    /\ [](PollInIoOrSleep => ~lockWriter)
    /\ [](rpc[MainReader] # "idle" => <>(rpc[MainReader] = "idle"))

\* C15 case: the poll thread is at its read while a consumer copies the
\* reading under the read lock.
C15_Witness ==
    /\ pc = "read"
    /\ rpc[MainReader] = "gt_copy"
    /\ MainReader \in lockReaders
    /\ ~lockWriter
    /\ published # {}

\* C16: a step that changes the reading or the flag is a store of the poll
\* thread under the write guard, and no step of a consumer (health, status,
\* get_temperatures, is_connected) or of the main thread changes either.
C16_OnlyPollLoopWrites ==
    /\ [][(temperatures' # temperatures \/ connected' # connected)
              => HoldingStep]_vars
    /\ [][(rpc' # rpc \/ rtemps' # rtemps \/ rconn' # rconn \/ mainPc' # mainPc)
              => UNCHANGED <<temperatures, connected>>]_vars

\* C16 case: health runs against a published reading and a set flag: its
\* is_connected holds the read guard, and the reading and the flag are as
\* the poll thread left them.
C16_Witness ==
    /\ rtemps[MainReader] = <<>>
    /\ rpc[MainReader] = "ic_read"
    /\ temperatures = ReadingOf(RawB)
    /\ published = SampleReadings
    /\ connected
    /\ lastWrite = "update"

\* What a poll cycle may have done so far: the write, the delay, one read,
\* the decode and the publication, in this order, ending at the first
\* failure.
CycleOrder ==
    { <<>>, <<"write_err">>, <<"write">>, <<"write", "delay">>,
      <<"write", "delay", "read_err">>, <<"write", "delay", "read_zero">>,
      <<"write", "delay", "read">>, <<"write", "delay", "read", "parse_err">>,
      DecodedCycle, DecodedCycle \o <<"update">> }

\* C17: a poll cycle writes the request, then sleeps the read delay, then
\* reads once, then decodes; after a failed write it reads nothing; a
\* reading is published only after a read of at least one byte and a
\* successful decode; a failed write, a failed or zero-length read and a
\* failed decode end the cycle as an error and publish nothing.
C17_CycleOrder ==
    /\ [](cycle \in CycleOrder)
    /\ [][published' # published => cycle = DecodedCycle]_vars
    /\ [][temperatures' # temperatures => cycle = DecodedCycle \o <<"update">>]_vars
    /\ [][(pc = "poll_match" /\ pc' # pc
              /\ LastOf(cycle) \in {"write_err", "read_err", "read_zero", "parse_err"})
            => (lastPoll' = "err" /\ pc' = "reconnect_if"
                  /\ UNCHANGED <<temperatures, published>>)]_vars

\* C17 case: after a reading was published, a later cycle wrote, slept and
\* read zero bytes.
C17_Witness ==
    /\ pc = "poll_match"
    /\ cycle = <<"write", "delay", "read_zero">>
    /\ pollRes.tag = "NoData"
    /\ temperatures \in SampleReadings

\* C18: a request that follows a successful poll cycle on the same
\* connection is written after exactly POLL_INTERVAL_SECS one-second sleeps;
\* an open attempt that follows a failed poll cycle comes after no
\* poll-interval sleep and exactly RECONNECT_DELAY_SECS backoff sleeps, the
\* failed cycle leading straight to the backoff.
C18_WaitsBetweenCycles ==
    /\ []((pc = "write" /\ lastPoll = "ok") => intervalSleeps = POLL_INTERVAL_SECS)
    /\ []((pc = "open" /\ lastPoll = "err") =>
             (intervalSleeps = 0 /\ backoffSleeps = RECONNECT_DELAY_SECS))
    /\ [][(pc = "poll_match" /\ pc' # pc /\ pollRes.tag # "Ok")
            => pc' = "reconnect_if"]_vars

\* C18 case: the second request on a connection is about to be written,
\* ten sleeps after the first cycle published.
C18_Witness ==
    /\ pc = "write"
    /\ lastPoll = "ok"
    /\ intervalSleeps = 10
    /\ published # {}
    /\ running

\* C19: when the first stop request finds the poll thread in the
\* poll-interval wait or in the backoff wait, the thread afterwards sleeps
\* at most one more second, writes no request and opens no port, and run
\* returns.
C19_StopDuringWait ==
    /\ [](stopInWait = "wait" =>
             /\ afterStop.sleeps <= 1
             /\ afterStop.writes = 0
             /\ afterStop.opens = 0)
    /\ (stopInWait = "wait") ~> (pc = "done")

\* C19 case: run has returned after a stop request that came during a
\* wait, one sleep later.
C19_Witness ==
    /\ stopInWait = "wait"
    /\ afterStop.sleeps = 1
    /\ pc = "done"

\* C20: what is done on a serial handle follows the order open, settle
\* delay, drain reads, end of drain, set_connected(true), first request; the
\* drain goes on after a read of at least one byte and ends at the first
\* zero-length read or read error; set_connected(true) is stored only for
\* a handle whose open succeeded.
C20_HandleOrder ==
    /\ [](\/ handleLog \in {<<>>, <<"open_failed">>}
          \/ \E n \in 1..Len(HandleOrder) : handleLog = SubSeq(HandleOrder, 1, n))
    /\ [][(pc = "flush_match" /\ pc' # pc) =>
             ((pc' = "flush_read") <=> (rdTag = "ok" /\ buffer # <<>>))]_vars
    /\ [][(Len(handleLog') > Len(handleLog) /\ LastOf(handleLog') = "connected") =>
             (prevOpen = "opened" /\ openHandles = 1 /\ connected')]_vars

\* C20 case: on a handle opened after a failed poll cycle and its backoff,
\* the first request has been written.
C20_Witness ==
    /\ pc = "read_delay"
    /\ handleLog = HandleOrder
    /\ lastPoll = "err"
    /\ connected

\* C21: never more than one serial handle is alive; none is alive during
\* the backoff wait, at the loop condition before an open and at the open
\* itself, so the handle of a connection that ended by a poll error or by
\* stop is dropped before these; and one SerialReader starts at most one
\* poll thread, spawn having taken the reader by value.
C21_OneHandle ==
    /\ openHandles \in {0, 1}
    /\ (InBackoff \/ pc \in {"unspawned", "while_running", "open"}) => openHandles = 0
    /\ pollThreads <= 1
    /\ (pollThreads = 1) <=> (reader = "moved")
    /\ (pc # "unspawned") <=> (pollThreads = 1)

\* C21 case: the second connection of the one poll thread has been opened,
\* after the first ended by a poll error and the backoff.
C21_Witness ==
    /\ pc = "settle"
    /\ lastPoll = "err"
    /\ openHandles = 1
    /\ pollThreads = 1
    /\ reader = "moved"

\* The first check that fails on buf when the checks are made in the order
\* length, checksum, command byte, sensor count; "Ok" when none fails.
FirstFailure(buf) ==
    IF Len(buf) < 13 THEN "TooShort"
    ELSE IF ~CrcOk(buf) THEN "CrcMismatch"
    ELSE IF buf[3] # 32 THEN "InvalidCommand"
    ELSE IF buf[4] # 4 THEN "UnexpectedTempCount"
    ELSE "Ok"

\* C22: the result of a parse names the first check that fails in the order
\* length, checksum, command byte, sensor count; UnexpectedTempCount carries
\* byte 3; a failing parse carries no reading, and run publishes nothing
\* and stores nothing for it.
C22_CheckOrder ==
    /\ [](Parsed =>
             /\ pollRes.tag = FirstFailure(buffer)
             /\ pollRes.tag = "UnexpectedTempCount" => pollRes.a = buffer[4]
             /\ pollRes.tag # "Ok" => pollRes.temps = <<>>)
    /\ [][(Parsed /\ pollRes.tag # "Ok" /\ pc' # pc) =>
             (pc' = "reconnect_if"
                /\ UNCHANGED <<temperatures, published, lastDecoded, data>>)]_vars

\* C22 case: a sealed frame with the magic byte and command 0x20 but count 3
\* has been parsed.
C22_Witness ==
    /\ Parsed
    /\ Len(buffer) = FRAME_LEN
    /\ buffer[1] = MAGIC
    /\ buffer[3] = 32
    /\ buffer[4] = 3
    /\ CrcOk(buffer)
    /\ pollRes.tag = "UnexpectedTempCount"
    /\ pollRes.a = 3

\* The frame in buf passes the three checks made on its content.
Accepted(buf) ==
    /\ Len(buf) >= 13
    /\ CrcOk(buf)
    /\ buf[3] = 32
    /\ buf[4] = 4

\* The reading temps is the one bytes 4..12 of buf encode: value k is the
\* big-endian u16 of bytes 2k+2 and 2k+3, in tenths.
EncodedIn(temps, buf) ==
    /\ DOMAIN temps = 1..4
    /\ \A k \in 1..4 :
          /\ temps[k].tenth \in 0..9
          /\ (10 * temps[k].whole) + temps[k].tenth
                = (256 * buf[3 + (2 * k)]) + buf[4 + (2 * k)]

\* C23: whatever bytes 0 and 1 are, a buffer with a matching checksum,
\* command 0x20 and count 4 parses to Ok; run hands the reading encoded in
\* its bytes 4..12 to update, and once update has returned that reading is
\* the stored and published one.
C23_HeaderNotValidated ==
    /\ [](Parsed /\ Accepted(buffer) => pollRes.tag = "Ok")
    /\ [][(Parsed /\ Accepted(buffer) /\ pc' # pc) =>
             (pc' = "update_lock" /\ EncodedIn(data', buffer))]_vars
    /\ [](pc = "interval_check" =>
             (temperatures = lastDecoded /\ published = {temperatures}))

\* C23 case: the reading of a frame that begins 0x00 0x09 has been stored
\* and published.
C23_Witness ==
    /\ pc = "interval_check"
    /\ temperatures = ReadingOf(RawC)
    /\ published = {ReadingOf(RawC)}
    /\ lastWrite = "update"

====
